---- MODULE Spec2Model ----
(***************************************************************************)
(* Escape-time fractals of mandelbrot.py: get_escape_time (scalar),        *)
(* get_complex_grid (lattice generator), get_escape_time_color_arr         *)
(* (Mandelbrot batch form) and get_julia_color_arr (Julia batch form).     *)
(*                                                                         *)
(* Complex numbers are Gaussian integers [re, im]: on them the arithmetic  *)
(* of the code (z**2 + c, abs(z) > 2) is exact, as it is in binary         *)
(* floating point for these magnitudes.  Real coordinates of the lattice   *)
(* generator are integer multiples of one lattice unit.  numpy arrays are  *)
(* objects of a heap addressed by reference, so that aliasing between the  *)
(* caller's array and a function's working array is expressible.           *)
(***************************************************************************)
EXTENDS Integers, Sequences, FiniteSets, TLC

VARIABLES fn, pc, args, heap, zeros, z, escape_times, mask, i, ret, outcome,
          arg0, first, second

vars == <<fn, pc, args, heap, zeros, z, escape_times, mask, i, ret, outcome,
          arg0, first, second>>

\* the locals of the batch forms
locals == <<heap, zeros, z, escape_times, mask, i>>

\* what the model remembers of the caller's array and of an earlier call
history == <<arg0, first, second>>

(* ---------------------------- bounds ----------------------------------- *)
\* largest max_iterations a caller passes
MaxIter == 2
\* callers also pass max_iterations down to -NegIter
NegIter == 2
\* an input array of a batch form has at most MaxCells cells
MaxCells == 2
\* |re|, |im| of the parameter c handed to get_escape_time
CoordMax == 3
\* |re|, |im| of the corners handed to get_complex_grid, in lattice units
GridMax == 4
\* |step| handed to get_complex_grid, in lattice units
MaxStep == 2

(* ------------------------- complex numbers ----------------------------- *)
Cx(a, b) == [re |-> a, im |-> b]

Zero == Cx(0, 0)

\* z ** 2
Sq(w) == Cx(w.re * w.re - w.im * w.im, 2 * w.re * w.im)

\* z + c
Add(w, v) == Cx(w.re + v.re, w.im + v.im)

\* abs(z) ** 2, so that abs(z) > 2 is AbsSq(z) > 4
AbsSq(w) == w.re * w.re + w.im * w.im

\* Python's None and an int result
None == <<>>

Some(k) == <<k>>

(* ------------------------- get_escape_time ----------------------------- *)
\* line 15 with >= in place of >
ScalarEscapedGE(w) == AbsSq(w) >= 4

\* line 15: if abs(z) > 2
ScalarEscaped(w) == AbsSq(w) > 4

\* lines 13-17: the for loop over range(max_iterations + 1), from index k on
RECURSIVE escape_loop(_, _, _, _)
escape_loop(w, c, k, max_iterations) ==
    IF k > max_iterations
    THEN None
    ELSE LET w1 == Add(Sq(w), c)
         IN  IF ScalarEscaped(w1) THEN Some(k)
             ELSE escape_loop(w1, c, k + 1, max_iterations)

get_escape_time(c, max_iterations) == escape_loop(Zero, c, 0, max_iterations)

(* ------------------------- get_complex_grid ---------------------------- *)
\* ceil(a / b) for b # 0
CeilDiv(a, b) ==
    IF b > 0 THEN -((-a) \div b) ELSE -(a \div (-b))

\* np.arange(start, stop, step) raises for step = 0
arange_raises(start, stop, step) == step = 0

\* a stepped range that keeps an end point lying on a step boundary
arange_len_inclusive(start, stop, step) ==
    LET n == 1 - CeilDiv(start - stop, step) IN IF n > 0 THEN n ELSE 0

\* len(np.arange(start, stop, step)) = max(0, ceil((stop - start) / step))
arange_len(start, stop, step) ==
    LET n == CeilDiv(stop - start, step) IN IF n > 0 THEN n ELSE 0

\* np.arange(start, stop, step)[k] = start + k * step, 0-based
np_arange(start, stop, step) ==
    [k \in 0 .. arange_len(start, stop, step) - 1 |-> start + k * step]

\* index set of an array of the given shape
Cells(rows, cols) == (0 .. rows - 1) \X (0 .. cols - 1)

\* lines 37-38: np.meshgrid(real_range, imag_range), real_arr + 1j * imag_arr
meshgrid_complex(real_range, imag_range) ==
    LET cols == Cardinality(DOMAIN real_range)
        rows == Cardinality(DOMAIN imag_range)
    IN  [shape |-> <<rows, cols>>,
         data  |-> [cell \in Cells(rows, cols) |->
                       Cx(real_range[cell[2]], imag_range[cell[1]])]]

\* lines 29-38, for a step np.arange accepts
get_complex_grid(top_left, bottom_right, step) ==
    LET col_start == top_left.re
        col_end == bottom_right.re
        row_start == top_left.im
        row_end == bottom_right.im
        real_range == np_arange(col_start, col_end, step)
        imag_range == np_arange(row_start, row_end, -step)
    IN  meshgrid_complex(real_range, imag_range)

(* ------------------------------ inputs --------------------------------- *)
IterRange == (-NegIter) .. MaxIter

ScalarPoints == {Cx(a, b) : a \in (-CoordMax) .. CoordMax, b \in (-CoordMax) .. CoordMax}

GridCorners == {Cx(a, b) : a \in (-GridMax) .. GridMax, b \in (-GridMax) .. GridMax}

Steps == (-MaxStep) .. MaxStep

\* cell values of the arrays handed to get_escape_time_color_arr
MandelPoints == {Cx(0, 0), Cx(-1, 0), Cx(0, 1), Cx(-2, 0), Cx(2, 0), Cx(1, 0),
                 Cx(-1, 1), Cx(2, 1)}

\* cell values of the grids handed to get_julia_color_arr, and its parameter c
JuliaPoints == {Cx(0, 0), Cx(1, 0), Cx(2, 0), Cx(1, 1), Cx(2, 1)}

JuliaParams == {Cx(0, 0), Cx(-1, 0), Cx(1, 0), Cx(-3, -2)}

Shapes == {s \in (1 .. MaxCells) \X (1 .. MaxCells) : s[1] * s[2] <= MaxCells}

Arrays(points) ==
    UNION {{[shape |-> s, data |-> d] : d \in [Cells(s[1], s[2]) -> points]} : s \in Shapes}

(* ------------------------------ state ---------------------------------- *)
NoArgs == [none |-> TRUE]

Init ==
    /\ fn = "none"
    /\ pc = "idle"
    /\ args = NoArgs
    /\ heap = <<>>
    /\ zeros = 0
    /\ z = 0
    /\ escape_times = <<>>
    /\ mask = <<>>
    /\ i = 0
    /\ ret = <<>>
    /\ outcome = "pending"
    /\ arg0 = <<>>
    /\ first = <<>>
    /\ second = FALSE

\* a call of get_escape_time(c, max_iterations), lines 12-17
CallEscapeTime ==
    /\ pc = "idle"
    /\ \E c \in ScalarPoints, n \in IterRange :
          /\ args' = [c |-> c, max_iterations |-> n]
          /\ ret' = get_escape_time(c, n)
    /\ fn' = "get_escape_time"
    /\ pc' = "done"
    /\ outcome' = "returned"
    /\ UNCHANGED <<locals, history>>

\* a call of get_complex_grid(top_left, bottom_right, step), lines 29-38
CallComplexGrid ==
    /\ pc = "idle"
    /\ \E tl \in GridCorners, br \in GridCorners, step \in Steps :
          /\ args' = [top_left |-> tl, bottom_right |-> br, step |-> step]
          /\ IF arange_raises(tl.re, br.re, step)
             THEN outcome' = "raised" /\ ret' = <<>>
             ELSE outcome' = "returned" /\ ret' = get_complex_grid(tl, br, step)
    /\ fn' = "get_complex_grid"
    /\ pc' = "done"
    /\ UNCHANGED <<locals, history>>

(* ------------------------- numpy primitives ---------------------------- *)
RECURSIVE GCD(_, _)
GCD(a, b) == IF b = 0 THEN a ELSE GCD(b, a % b)

Abs(a) == IF a < 0 THEN -a ELSE a

Sign(a) == IF a < 0 THEN -1 ELSE IF a > 0 THEN 1 ELSE 0

\* n / d of numpy's true division, as a fraction in lowest terms with a
\* positive denominator; a zero denominator gives nan (0/0) or +-inf (+-1/0)
true_divide(n, d) ==
    IF d = 0
    THEN [num |-> Sign(n), den |-> 0]
    ELSE LET g == GCD(Abs(n), Abs(d))
         IN  [num |-> (Sign(d) * n) \div g, den |-> Abs(d) \div g]

NaN == [num |-> 0, den |-> 0]

\* the reference of the next array object allocated in heap h
NewRef(h) == Cardinality(DOMAIN h) + 1

\* np.zeros_like(a, dtype=complex): a new array object
np_zeros_like(h, a) ==
    [ref  |-> NewRef(h),
     heap |-> h @@ (NewRef(h) :> [shape |-> h[a].shape,
                                  data  |-> [cell \in DOMAIN h[a].data |-> Zero]])]

\* z = grid in place of z = np.copy(grid): the same array object
np_copy_alias(h, a) == [ref |-> a, heap |-> h]

\* np.copy(a): a new array object holding a's values
np_copy(h, a) ==
    [ref |-> NewRef(h), heap |-> h @@ (NewRef(h) :> h[a])]

\* an escape_times array filled with one less than asked for
np_full_short(shape, v) == [cell \in Cells(shape[1], shape[2]) |-> v - 1]

\* np.full(shape, v) and np.ones(shape, dtype=bool)
np_full(shape, v) == [cell \in Cells(shape[1], shape[2]) |-> v]

np_ones(shape) == [cell \in Cells(shape[1], shape[2]) |-> TRUE]

\* a[sel] = v for a boolean array sel
assign_where(a, sel, v) == [cell \in DOMAIN a |-> IF sel[cell] THEN v ELSE a[cell]]

\* the normalization without the + 1 of the numerator
normalize_unshifted(et, max_iterations) ==
    [cell \in DOMAIN et |-> true_divide(max_iterations - et[cell], max_iterations + 1)]

\* line 61 and line 87: (max_iterations - escape_times + 1) / (max_iterations + 1)
normalize(et, max_iterations) ==
    [cell \in DOMAIN et |-> true_divide(max_iterations - et[cell] + 1, max_iterations + 1)]

(* -------------------- get_escape_time_color_arr ------------------------ *)
\* line 55: zeros[mask] = zeros[mask] ** 2 + c_arr[mask]
mandel_update(zd, cd, m) ==
    [cell \in DOMAIN zd |-> IF m[cell] THEN Add(Sq(zd[cell]), cd[cell]) ELSE zd[cell]]

\* line 56 with >= in place of >
mandel_newly_escaped_ge(m, zd) ==
    [cell \in DOMAIN zd |-> m[cell] /\ AbsSq(zd[cell]) >= 4]

\* line 56: newly_escaped = mask & (np.abs(zeros) > 2)
mandel_newly_escaped(m, zd) ==
    [cell \in DOMAIN zd |-> m[cell] /\ AbsSq(zd[cell]) > 4]

\* lines 50-52, on entry with the array reference and max_iterations of a
MandelEnter(h, a) ==
    LET al == np_zeros_like(h, a.c_arr)
    IN  /\ heap' = al.heap
        /\ zeros' = al.ref
        /\ escape_times' = np_full(h[a.c_arr].shape, a.max_iterations + 1)
        /\ mask' = np_ones(h[a.c_arr].shape)
        /\ i' = 0
        /\ z' = 0
        /\ fn' = "get_escape_time_color_arr"
        /\ pc' = "loop"
        /\ outcome' = "pending"
        /\ ret' = <<>>

\* a call of get_escape_time_color_arr(c_arr, max_iterations)
MandelCall ==
    /\ pc = "idle"
    /\ \E arr \in Arrays(MandelPoints), n \in IterRange :
          /\ args' = [c_arr |-> 1, max_iterations |-> n]
          /\ arg0' = arr
          /\ MandelEnter(1 :> arr, args')
    /\ UNCHANGED <<first, second>>

\* lines 54-58: one iteration of the loop over range(max_iterations + 1)
MandelIter ==
    /\ fn = "get_escape_time_color_arr"
    /\ pc = "loop"
    /\ i <= args.max_iterations
    /\ LET zd == mandel_update(heap[zeros].data, heap[args.c_arr].data, mask)
           newly_escaped == mandel_newly_escaped(mask, zd)
       IN  /\ heap' = [heap EXCEPT ![zeros].data = zd]
           /\ escape_times' = assign_where(escape_times, newly_escaped, i)
           /\ mask' = assign_where(mask, newly_escaped, FALSE)
    /\ i' = i + 1
    /\ UNCHANGED <<fn, pc, args, zeros, z, ret, outcome, history>>

\* lines 61-62: normalize and return
MandelReturn ==
    /\ fn = "get_escape_time_color_arr"
    /\ pc = "loop"
    /\ i > args.max_iterations
    /\ ret' = normalize(escape_times, args.max_iterations)
    /\ outcome' = "returned"
    /\ pc' = "done"
    /\ UNCHANGED <<fn, args, locals, history>>

\* the caller calls get_escape_time_color_arr again with the same arguments
MandelCallAgain ==
    /\ fn = "get_escape_time_color_arr"
    /\ pc = "done"
    /\ ~second
    /\ first' = ret
    /\ second' = TRUE
    /\ MandelEnter([r \in {args.c_arr} |-> heap[r]], args)
    /\ UNCHANGED <<args, arg0>>

(* ----------------------- get_julia_color_arr --------------------------- *)
\* line 81: z[mask] = z[mask] ** 2 + c
julia_update(zd, c, m) ==
    [cell \in DOMAIN zd |-> IF m[cell] THEN Add(Sq(zd[cell]), c) ELSE zd[cell]]

\* line 82 without the mask
julia_newly_escaped_unmasked(m, zd) ==
    [cell \in DOMAIN zd |-> AbsSq(zd[cell]) > 4]

\* line 82: newly_escaped = mask & (np.abs(z) > 2)
julia_newly_escaped(m, zd) ==
    [cell \in DOMAIN zd |-> m[cell] /\ AbsSq(zd[cell]) > 4]

\* lines 76-78, on entry with the grid reference, c and max_iterations of a
JuliaEnter(h, a) ==
    LET al == np_copy(h, a.grid)
    IN  /\ heap' = al.heap
        /\ z' = al.ref
        /\ escape_times' = np_full(h[a.grid].shape, a.max_iterations + 1)
        /\ mask' = np_ones(h[a.grid].shape)
        /\ i' = 0
        /\ zeros' = 0
        /\ fn' = "get_julia_color_arr"
        /\ pc' = "loop"
        /\ outcome' = "pending"
        /\ ret' = <<>>

\* a call of get_julia_color_arr(grid, c, max_iterations)
JuliaCall ==
    /\ pc = "idle"
    /\ \E arr \in Arrays(JuliaPoints), c \in JuliaParams, n \in IterRange :
          /\ args' = [grid |-> 1, c |-> c, max_iterations |-> n]
          /\ arg0' = arr
          /\ JuliaEnter(1 :> arr, args')
    /\ UNCHANGED <<first, second>>

\* lines 80-84: one iteration of the loop over range(max_iterations + 1)
JuliaIter ==
    /\ fn = "get_julia_color_arr"
    /\ pc = "loop"
    /\ i <= args.max_iterations
    /\ LET zd == julia_update(heap[z].data, args.c, mask)
           newly_escaped == julia_newly_escaped(mask, zd)
       IN  /\ heap' = [heap EXCEPT ![z].data = zd]
           /\ escape_times' = assign_where(escape_times, newly_escaped, i)
           /\ mask' = assign_where(mask, newly_escaped, FALSE)
    /\ i' = i + 1
    /\ UNCHANGED <<fn, pc, args, zeros, z, ret, outcome, history>>

\* lines 87-88: normalize and return
JuliaReturn ==
    /\ fn = "get_julia_color_arr"
    /\ pc = "loop"
    /\ i > args.max_iterations
    /\ ret' = normalize(escape_times, args.max_iterations)
    /\ outcome' = "returned"
    /\ pc' = "done"
    /\ UNCHANGED <<fn, args, locals, history>>

\* the caller calls get_julia_color_arr again with the same arguments
JuliaCallAgain ==
    /\ fn = "get_julia_color_arr"
    /\ pc = "done"
    /\ ~second
    /\ first' = ret
    /\ second' = TRUE
    /\ JuliaEnter([r \in {args.grid} |-> heap[r]], args)
    /\ UNCHANGED <<args, arg0>>

Next ==
    \/ CallEscapeTime
    \/ CallComplexGrid
    \/ MandelCall
    \/ MandelIter
    \/ MandelReturn
    \/ MandelCallAgain
    \/ JuliaCall
    \/ JuliaIter
    \/ JuliaReturn
    \/ JuliaCallAgain

Spec == Init /\ [][Next]_vars

(* ------------------------------ claims --------------------------------- *)
IsScalar == fn = "get_escape_time"

IsGrid == fn = "get_complex_grid"

IsMandel == fn = "get_escape_time_color_arr"

IsJulia == fn = "get_julia_color_arr"

IsBatch == IsMandel \/ IsJulia

Returned == pc = "done" /\ outcome = "returned"

\* the sentinel of the running call
Sentinel == args.max_iterations + 1

\* the caller's array and the working array of the running batch call
CallerArr == IF IsMandel THEN heap[args.c_arr] ELSE heap[args.grid]

WorkArr == IF IsMandel THEN heap[zeros] ELSE heap[z]

\* the intensities 0 and 1 and the order of intensities with den > 0
IntensityZero == [num |-> 0, den |-> 1]

IntensityOne == [num |-> 1, den |-> 1]

\* the escape time of the scalar form with None turned into the sentinel
ScalarTime(c, max_iterations) ==
    LET s == get_escape_time(c, max_iterations)
    IN  IF s = None THEN max_iterations + 1 ELSE s[1]

\* C1: when get_escape_time_color_arr returns for max_iterations >= 0, the
\* escape time of every cell is the result of get_escape_time on that cell's
\* parameter, the sentinel max_iterations + 1 exactly when that result is
\* None, and the cell's intensity is (max_iterations - t + 1)/(max_iterations + 1).
C1_BatchMatchesScalar ==
    (IsMandel /\ Returned /\ args.max_iterations >= 0) =>
        \A cell \in DOMAIN CallerArr.data :
            LET s == get_escape_time(CallerArr.data[cell], args.max_iterations)
                t == escape_times[cell]
            IN  /\ (s # None => t = s[1])
                /\ (t = Sentinel <=> s = None)
                /\ ret[cell] = true_divide(args.max_iterations - t + 1,
                                           args.max_iterations + 1)

C1_Witness ==
    /\ IsMandel /\ Returned /\ args.max_iterations = 2
    /\ \E a, b \in DOMAIN escape_times :
          /\ escape_times[a] = 2
          /\ escape_times[b] = Sentinel
          /\ get_escape_time(CallerArr.data[a], 2) = Some(2)
          /\ get_escape_time(CallerArr.data[b], 2) = None

\* C2 as stated: get_escape_time(c, N) returns 0 for c = 2 and for every c
\* with |c| > 2, for every N >= 0.
C2_Original ==
    (IsScalar /\ Returned /\ args.max_iterations >= 0
        /\ (args.c = Cx(2, 0) \/ AbsSq(args.c) > 4)) => ret = Some(0)

\* C2 amended: get_escape_time(c, N) returns 0 for every c with |c| > 2 and
\* every N >= 0; c = 2 has |c| = 2, not > 2, and get_escape_time(2, N) returns
\* 1 for N >= 1 and None for N = 0.
C2_EscapeAtZero ==
    (IsScalar /\ Returned /\ args.max_iterations >= 0) =>
        /\ (AbsSq(args.c) > 4 => ret = Some(0))
        /\ (args.c = Cx(2, 0) =>
               ret = IF args.max_iterations >= 1 THEN Some(1) ELSE None)

C2_Witness ==
    /\ IsScalar /\ Returned /\ args.max_iterations = MaxIter
    /\ AbsSq(args.c) = 5
    /\ ret = Some(0)

\* C3: get_complex_grid called with step <= 0 ends in an error and never
\* returns a grid.
C3_StepRejected ==
    (IsGrid /\ pc = "done" /\ args.step <= 0) => outcome = "raised"

\* C4: get_escape_time, get_escape_time_color_arr and get_julia_color_arr
\* called with max_iterations < 0 end in an error instead of returning.
C4_NegativeRejected ==
    ((IsScalar \/ IsBatch) /\ pc = "done" /\ args.max_iterations < 0) =>
        outcome = "raised"

\* the region of the call is correctly oriented and its step positive
Oriented ==
    /\ args.top_left.re < args.bottom_right.re
    /\ args.top_left.im > args.bottom_right.im
    /\ args.step > 0

\* n = ceil(span / step) for span > 0 and step > 0
IsCeil(n, span, step) == (n - 1) * step < span /\ span <= n * step

RECURSIVE first_escape(_, _, _, _)
first_escape(w, c, k, max_iterations) ==
    IF k > max_iterations THEN max_iterations + 1
    ELSE IF AbsSq(w) > 4 THEN k
    ELSE first_escape(Add(Sq(w), c), c, k + 1, max_iterations)

\* C6: the escape time get_julia_color_arr records for a cell is the
\* smallest k in [0, max_iterations] with |z_k| > 2, where z_0 is the cell's
\* grid point and z_{k+1} = z_k^2 + c, and the sentinel when there is no such k.
C6_JuliaFirstEscape ==
    (IsJulia /\ Returned /\ args.max_iterations >= 0) =>
        \A cell \in DOMAIN escape_times :
            escape_times[cell] =
                first_escape(arg0.data[cell], args.c, 0, args.max_iterations)

\* C7 as stated: no cell of a batch form's output has intensity exactly 1;
\* a never-escaped cell has intensity 0 and a cell escaped at k = 0 has an
\* intensity strictly below 1.
C7_Original ==
    (IsBatch /\ Returned /\ args.max_iterations >= 0) =>
        \A cell \in DOMAIN ret :
            /\ ret[cell] # IntensityOne
            /\ (escape_times[cell] = Sentinel => ret[cell] = IntensityZero)
            /\ (escape_times[cell] = 0 => ret[cell].num < ret[cell].den)

\* C7 amended: in the output of a batch form, for max_iterations >= 0, a
\* never-escaped cell has intensity exactly 0 and a cell that escaped at
\* k = 0 has the maximum intensity, which is exactly 1; no other cell has
\* intensity 1 and none has more.
C7_IntensityExtremes ==
    (IsBatch /\ Returned /\ args.max_iterations >= 0) =>
        \A cell \in DOMAIN ret :
            /\ (escape_times[cell] = Sentinel => ret[cell] = IntensityZero)
            /\ (escape_times[cell] = 0 <=> ret[cell] = IntensityOne)
            /\ ret[cell].den > 0
            /\ ret[cell].num <= ret[cell].den

C7_Witness ==
    /\ IsJulia /\ Returned /\ args.max_iterations = 1
    /\ \E a, b \in DOMAIN ret :
          /\ escape_times[a] = 0 /\ ret[a] = IntensityOne
          /\ escape_times[b] = Sentinel /\ ret[b] = IntensityZero

\* C8: for max_iterations >= 0 every entry of the output of
\* get_escape_time_color_arr lies in [0, 1], every recorded escape time in
\* [0, max_iterations + 1], and a cell whose parameter is 0 has intensity 0.
C8_IntensityRange ==
    (IsMandel /\ Returned /\ args.max_iterations >= 0) =>
        \A cell \in DOMAIN ret :
            /\ ret[cell].den > 0
            /\ 0 <= ret[cell].num
            /\ ret[cell].num <= ret[cell].den
            /\ 0 <= escape_times[cell]
            /\ escape_times[cell] <= Sentinel
            /\ (CallerArr.data[cell] = Zero => ret[cell] = IntensityZero)

C8_Witness ==
    /\ IsMandel /\ Returned /\ args.max_iterations = 2
    /\ \E a, b \in DOMAIN ret :
          /\ CallerArr.data[a] = Zero /\ ret[a] = IntensityZero
          /\ ret[b] = [num |-> 1, den |-> 3]

\* at an iteration boundary a cell is active exactly when its escape time
\* is still the sentinel
ActiveIffSentinel ==
    (IsBatch /\ pc = "loop") =>
        \A cell \in DOMAIN mask : mask[cell] <=> escape_times[cell] = Sentinel

\* one loop iteration: a cell escaped before it stays escaped with its
\* escape time and its z value, and a cell escaping in it is given index i
EscapeIsFinal ==
    (IsBatch /\ pc = "loop" /\ pc' = "loop") =>
        \A cell \in DOMAIN mask :
            /\ (~mask[cell] =>
                   /\ ~mask'[cell]
                   /\ escape_times'[cell] = escape_times[cell]
                   /\ WorkArr'.data[cell] = WorkArr.data[cell])
            /\ ((mask[cell] /\ ~mask'[cell]) => escape_times'[cell] = i)

\* C9: during the loop of a batch form a cell whose mask bit was cleared at
\* iteration k keeps its mask bit false, its escape time k and its z value
\* in every later iteration, and at every iteration boundary a cell is
\* active exactly when its escape time equals the sentinel.
C9_MaskMonotone == []ActiveIffSentinel /\ [][EscapeIsFinal]_vars

C9_Witness ==
    /\ IsMandel /\ pc = "loop" /\ i = 2
    /\ \E a, b \in DOMAIN mask :
          /\ ~mask[a] /\ escape_times[a] = 0
          /\ mask[b] /\ escape_times[b] = Sentinel

\* C10: a batch form leaves the caller's array as it was before the call,
\* and a second call with the same arguments returns the same array.
C10_InputsUnchanged ==
    IsBatch =>
        /\ CallerArr = arg0
        /\ ((second /\ Returned) => ret = first)

C10_Witness ==
    /\ IsJulia /\ Returned /\ second
    /\ args.max_iterations = 2
    /\ ret = first
    /\ WorkArr # CallerArr
    /\ \E cell \in DOMAIN ret : ret[cell] = [num |-> 2, den |-> 3]

====
